---- MODULE Spec2Model ----
(***************************************************************************)
(* A model of scel2ibus.py: the decoder of the Sogou .scel dictionary      *)
(* format (parse_header, parse_py_table, parse_word_table), the record     *)
(* assembly (get_word_info_list, to_ibus) and process_scel_file, which     *)
(* writes the text beside the input file.                                  *)
(*                                                                         *)
(* Bytes are the numbers 0..255 and a bytes object is a sequence of them.  *)
(* A str is the sequence of its code points.  The input buffer is held as  *)
(* the regions that from_binary and parse_header cut out of it at their    *)
(* fixed offsets; a Python slice never fails, so a buffer that ends early  *)
(* shows as regions that are short or empty.                               *)
(* The regions are kept short: the string ranges and the pinyin region    *)
(* of a real file are 0x208 to 0x10E8 bytes long, and the parsers treat    *)
(* a region of any length alike.                                           *)
(***************************************************************************)
EXTENDS Integers, Sequences, FiniteSets, TLC

\* ------------------------------------------------------------------ bounds

\* The largest number of entries of a generated pinyin table.
MaxPy == 2
\* The largest number of word groups of a generated word table.
MaxGroups == 2
\* The largest number of words of a generated word group.
MaxWords == 2
\* The largest number of bytes cut off the end of a generated region.
MaxCut == 2

\* ------------------------------------------------------- bytes and slices

Min(a, b) == IF a < b THEN a ELSE b

\* Python's s[a:b] for 0 <= a, 0 <= b: never fails, the end is clamped.
Slice(s, a, b) ==
  IF a >= Min(b, Len(s)) THEN << >> ELSE SubSeq(s, a + 1, Min(b, Len(s)))

\* Python's s[a:] for 0 <= a.
Drop(s, a) == Slice(s, a, Len(s))

\* struct.unpack("<H", b)[0] of a 2-byte b.
U16(b) == b[1] + 256 * b[2]

\* struct.pack("<H", n) of 0 <= n < 65536.
Enc16(n) == << n % 256, n \div 256 >>

RECURSIVE pack(_)
\* struct.pack(f"<{len(v)}H", *v): the values, two little-endian bytes each.
pack(v) == IF v = << >> THEN << >> ELSE Enc16(Head(v)) \o pack(Tail(v))

RECURSIVE unpack(_)
\* struct.unpack(f"<{len(b) // 2}H", b) of a b of even length.
unpack(b) ==
  IF Len(b) < 2 THEN << >> ELSE << U16(b) >> \o unpack(Drop(b, 2))

\* ------------------------------------------------------------- utf-16le

IsHigh(u) == u >= 55296 /\ u <= 56319
IsLow(u) == u >= 56320 /\ u <= 57343

RECURSIVE DecodeUnits(_)
\* The code points of a sequence of UTF-16 code units; a surrogate that is
\* not part of a pair is an error (UnicodeDecodeError).
DecodeUnits(u) ==
  IF u = << >> THEN [ok |-> TRUE, s |-> << >>]
  ELSE IF IsLow(u[1]) THEN [ok |-> FALSE, s |-> << >>]
  ELSE IF IsHigh(u[1]) THEN
    IF Len(u) >= 2 /\ IsLow(u[2])
    THEN LET r == DecodeUnits(Drop(u, 2))
         IN  [ok |-> r.ok,
              s |-> << 65536 + (u[1] - 55296) * 1024 + (u[2] - 56320) >> \o r.s]
    ELSE [ok |-> FALSE, s |-> << >>]
  ELSE LET r == DecodeUnits(Tail(u))
       IN  [ok |-> r.ok, s |-> << u[1] >> \o r.s]

\* bytes.decode("utf-16le"): an odd number of bytes is an error too.
decode(b) ==
  IF Len(b) % 2 # 0 THEN [ok |-> FALSE, s |-> << >>]
  ELSE LET r == DecodeUnits(unpack(b))
       IN  IF r.ok THEN r ELSE [ok |-> FALSE, s |-> << >>]

\* ---------------------------------------------------------- parse_header

\* The 12 bytes every .scel file starts with.
Signature == << 64, 21, 0, 0, 68, 67, 83, 1, 1, 0, 0, 0 >>

\* The four bytes the pinyin-table region starts with.
PyMagic == << 157, 1, 0, 0 >>

\* A signature test that looks at the first four bytes only.
signature_ok_short(sig) == Slice(sig, 0, 4) = Slice(Signature, 0, 4)

\* signature != b"..." of parse_header, negated: all 12 bytes are compared.
signature_ok(sig) == sig = Signature

\* parse_header: sig is data[:12], strs the four string ranges of data in
\* the order name, type, description, example.  `decoded` says whether any
\* string range was handed to decode.
parse_header(sig, strs) ==
  IF ~signature_ok(sig)
  THEN [ok |-> FALSE, err |-> "signature", decoded |-> FALSE, fields |-> << >>]
  ELSE LET d == [i \in 1..4 |-> decode(strs[i])]
       IN  IF \A i \in 1..4 : d[i].ok
           THEN [ok |-> TRUE, err |-> "none", decoded |-> TRUE,
                 fields |-> [i \in 1..4 |-> d[i].s]]
           ELSE [ok |-> FALSE, err |-> "unicode", decoded |-> TRUE,
                 fields |-> << >>]

\* ---------------------------------------------------------- parse_pinyin

\* A parse_pinyin that forgets the 4-byte prefix when it advances.
pinyin_rest_no_prefix(data, length) == Drop(data, length)

\* data[4 + length :], what parse_pinyin hands back to the loop.
pinyin_rest(data, length) == Drop(data, 4 + length)

\* parse_pinyin on a slice that starts at a record.  Its `overrun` says that
\* the declared length was larger than the bytes after the 4-byte prefix.
parse_pinyin(data) ==
  IF Len(Slice(data, 0, 4)) # 4
  THEN [ok |-> FALSE, err |-> "struct", overrun |-> FALSE,
        pinyin |-> << >>, rest |-> data]
  ELSE LET index == U16(Slice(data, 0, 2))
           length == U16(Slice(data, 2, 4))
           d == decode(Slice(data, 4, 4 + length))
           over == length > Len(data) - 4
       IN  IF ~d.ok
           THEN [ok |-> FALSE, err |-> "unicode", overrun |-> over,
                 pinyin |-> << >>, rest |-> data]
           ELSE [ok |-> TRUE, err |-> "none", overrun |-> over,
                 pinyin |-> [index |-> index, length |-> length, pinyin |-> d.s],
                 rest |-> pinyin_rest(data, length)]

\* ------------------------------------------------------------ parse_word

\* parse_word on a slice that starts at a word record.  `overrun` holds the
\* length fields whose declared count was larger than the bytes after them.
parse_word(data) ==
  IF Len(Slice(data, 0, 2)) # 2
  THEN [ok |-> FALSE, err |-> "struct", overrun |-> {}, word |-> << >>,
        rest |-> data]
  ELSE LET word_len == U16(Slice(data, 0, 2))
           d == decode(Slice(data, 2, 2 + word_len))
           o1 == IF word_len > Len(data) - 2 THEN {"word_len"} ELSE {}
           eb == Slice(data, 2 + word_len, 2 + word_len + 2)
       IN  IF ~d.ok
           THEN [ok |-> FALSE, err |-> "unicode", overrun |-> o1,
                 word |-> << >>, rest |-> data]
           ELSE IF Len(eb) # 2
           THEN [ok |-> FALSE, err |-> "struct", overrun |-> o1,
                 word |-> << >>, rest |-> data]
           ELSE LET ext_len == U16(eb)
                    ext == Slice(data, 2 + word_len + 2, 2 + word_len + 2 + ext_len)
                    o2 == IF ext_len > Len(data) - (2 + word_len + 2)
                          THEN {"ext_len"} ELSE {}
                IN  [ok |-> TRUE, err |-> "none", overrun |-> o1 \cup o2,
                     word |-> [word_len |-> word_len, word |-> d.s,
                               ext_len |-> ext_len, ext |-> ext],
                     rest |-> Drop(data, 2 + word_len + 2 + ext_len)]

RECURSIVE parse_words(_, _)
\* The loop `for _ in range(same)` of parse_word_group, n words to go.
parse_words(data, n) ==
  IF n = 0
  THEN [ok |-> TRUE, err |-> "none", overrun |-> {}, words |-> << >>,
        rest |-> data]
  ELSE LET w == parse_word(data)
       IN  IF ~w.ok
           THEN [ok |-> FALSE, err |-> w.err, overrun |-> w.overrun,
                 words |-> << >>, rest |-> data]
           ELSE LET r == parse_words(w.rest, n - 1)
                IN  [ok |-> r.ok, err |-> r.err,
                     overrun |-> w.overrun \cup r.overrun,
                     words |-> IF r.ok THEN << w.word >> \o r.words ELSE << >>,
                     rest |-> IF r.ok THEN r.rest ELSE data]

\* ------------------------------------------------------ parse_word_group

\* A lookup that keeps the raw indices as they are, without the table.
resolve_unchecked(raw, pinyin_list) == [ok |-> TRUE, stored |-> raw]

\* [py_table.pinyin_list[i].index for i in raw]: every raw index is a
\* position of pinyin_list, and one past its end is an IndexError.
resolve(raw, pinyin_list) ==
  IF \E k \in 1..Len(raw) : raw[k] >= Len(pinyin_list)
  THEN [ok |-> FALSE, stored |-> << >>]
  ELSE [ok |-> TRUE,
        stored |-> [k \in 1..Len(raw) |-> pinyin_list[raw[k] + 1].index]]

\* parse_word_group on a slice that starts at a group.  `raw` holds what the
\* index table unpacked to, before the lookup, if the call came that far.
parse_word_group(data, pinyin_list) ==
  LET failed(e, o, seen) == [ok |-> FALSE, err |-> e, overrun |-> o,
                             group |-> << >>, raw |-> seen, rest |-> data]
  IN
  IF Len(Slice(data, 0, 4)) # 4 THEN failed("struct", {}, << >>)
  ELSE LET same == U16(Slice(data, 0, 2))
           py_table_len == U16(Slice(data, 2, 4))
           ib == Slice(data, 4, 4 + py_table_len)
           o1 == IF py_table_len > Len(data) - 4 THEN {"py_table_len"} ELSE {}
       IN  IF Len(ib) # 2 * (py_table_len \div 2) THEN failed("struct", o1, << >>)
           ELSE LET raw == unpack(ib)
                    r == resolve(raw, pinyin_list)
                IN  IF ~r.ok THEN failed("index", o1, << raw >>)
                    ELSE LET w == parse_words(Drop(data, 4 + py_table_len), same)
                         IN  IF ~w.ok THEN failed(w.err, o1 \cup w.overrun, << raw >>)
                             ELSE [ok |-> TRUE, err |-> "none",
                                   overrun |-> o1 \cup w.overrun,
                                   group |-> [same |-> same,
                                              py_table_len |-> py_table_len,
                                              py_table |-> r.stored,
                                              words |-> w.words],
                                   raw |-> << raw >>, rest |-> w.rest]

\* ------------------------------------------------------- record assembly

RECURSIVE join(_, _)
\* sep.join(strs) for a one-character separator.
join(sep, strs) ==
  IF strs = << >> THEN << >>
  ELSE IF Len(strs) = 1 THEN strs[1]
  ELSE strs[1] \o << sep >> \o join(sep, Tail(strs))

\* get_word_pinyin: the index bytes are unpacked and every value is used as
\* a position of pinyin_list; the texts are joined with an apostrophe.
get_word_pinyin(data, pinyin_list) ==
  LET indices == unpack(data)
  IN  IF \E k \in 1..Len(indices) : indices[k] >= Len(pinyin_list)
      THEN [ok |-> FALSE, s |-> << >>]
      ELSE [ok |-> TRUE,
            s |-> join(39, [k \in 1..Len(indices) |->
                              pinyin_list[indices[k] + 1].pinyin])]

\* struct.unpack("<H", ext[:2])[0] if ext else 0: struct.error unless
\* ext[:2] holds two bytes.
word_count(ext) ==
  IF ext = << >> THEN [ok |-> TRUE, n |-> 0]
  ELSE IF Len(Slice(ext, 0, 2)) # 2 THEN [ok |-> FALSE, n |-> 0]
  ELSE [ok |-> TRUE, n |-> U16(Slice(ext, 0, 2))]

\* One pass of the outer loop of get_word_info_list: the group's pinyin,
\* then one WordInfo per word; the first error ends it.
group_infos(g, pinyin_list) ==
  LET p == get_word_pinyin(pack(g.py_table), pinyin_list)
      bad == \E k \in 1..Len(g.words) : ~word_count(g.words[k].ext).ok
  IN  IF ~p.ok THEN [ok |-> FALSE, err |-> "index", infos |-> << >>]
      ELSE IF bad THEN [ok |-> FALSE, err |-> "struct", infos |-> << >>]
      ELSE [ok |-> TRUE, err |-> "none",
            infos |-> [k \in 1..Len(g.words) |->
                         [word |-> g.words[k].word, pinyin |-> p.s,
                          count |-> word_count(g.words[k].ext).n]]]

RECURSIVE get_word_info_list(_, _)
\* Scel.get_word_info_list over the groups of word_table, in order.
get_word_info_list(word_table, pinyin_list) ==
  IF word_table = << >> THEN [ok |-> TRUE, err |-> "none", infos |-> << >>]
  ELSE LET g == group_infos(Head(word_table), pinyin_list)
       IN  IF ~g.ok THEN g
           ELSE LET r == get_word_info_list(Tail(word_table), pinyin_list)
                IN  IF ~r.ok THEN r
                    ELSE [ok |-> TRUE, err |-> "none", infos |-> g.infos \o r.infos]

RECURSIVE Digits(_)
\* The decimal digits of n >= 0, as f"{n}" writes them.
Digits(n) ==
  IF n < 10 THEN << 48 + n >> ELSE Digits(n \div 10) \o << 48 + (n % 10) >>

\* WordInfo.__repr__: f"{word} {pinyin} {count}".
info_repr(i) == i.word \o << 32 >> \o i.pinyin \o << 32 >> \o Digits(i.count)

\* The text to_ibus makes of the records: "\n".join(...) + "\n".
ibus_text(infos) ==
  join(10, [k \in 1..Len(infos) |-> info_repr(infos[k])]) \o << 10 >>

\* Scel.to_ibus.
to_ibus(word_table, pinyin_list) ==
  LET r == get_word_info_list(word_table, pinyin_list)
  IN  IF ~r.ok THEN [ok |-> FALSE, err |-> r.err, infos |-> << >>, text |-> << >>]
      ELSE [ok |-> TRUE, err |-> "none", infos |-> r.infos,
            text |-> ibus_text(r.infos)]

RECURSIVE encode_utf8(_)
\* str.encode("utf-8") of a text without lone surrogates, as the file
\* object opened with encoding="utf-8" writes it.
encode_utf8(t) ==
  IF t = << >> THEN << >>
  ELSE LET c == Head(t)
           b == IF c < 128 THEN << c >>
                ELSE IF c < 2048
                THEN << 192 + (c \div 64), 128 + (c % 64) >>
                ELSE IF c < 65536
                THEN << 224 + (c \div 4096), 128 + ((c \div 64) % 64),
                        128 + (c % 64) >>
                ELSE << 240 + (c \div 262144), 128 + ((c \div 4096) % 64),
                        128 + ((c \div 64) % 64), 128 + (c % 64) >>
       IN  b \o encode_utf8(Tail(t))

\* ------------------------------------------------------ the input buffers

SeqsUpTo(S, n) == UNION { [1..k -> S] : k \in 0..n }

RECURSIVE Concat(_)
Concat(ss) == IF ss = << >> THEN << >> ELSE Head(ss) \o Concat(Tail(ss))

\* b without its last k bytes.
Cut(b, k) == IF k >= Len(b) THEN << >> ELSE SubSeq(b, 1, Len(b) - k)

\* A region is generated from its records and then malformed in one way:
\* << "cut", k >> drops its last k bytes, << f, d >> makes the length field f
\* of its last record declare d more than the record holds.
LieDeltas == {1, 2}
NoLie == << "none", 0 >>
Malforms(fields) ==
  {NoLie} \cup { << "cut", k >> : k \in 1..MaxCut }
          \cup { << f, d >> : f \in fields, d \in LieDeltas }
Lie(m, f) == IF m[1] = f THEN m[2] ELSE 0
CutOf(m) == IF m[1] = "cut" THEN m[2] ELSE 0
\* The malformation of record k of n: only the last record is malformed.
At(m, k, n) == IF k = n THEN m ELSE NoLie

TextA == << 97, 0 >>
TextX == << 88, 0 >>
TextY == << 89, 0 >>
\* U+D800 alone, which utf-16le cannot decode.
TextLone == << 0, 216 >>

\* One pinyin record: index, length, text.
EncPinyin(e, m) ==
  Enc16(e.index) \o Enc16(Len(e.text) + Lie(m, "length")) \o e.text

\* The pinyin-table region of the entries es.
PyRegion(es, m) ==
  Cut(PyMagic \o Concat([k \in 1..Len(es) |-> EncPinyin(es[k], At(m, k, Len(es)))]),
      CutOf(m))

PyIndexVals == {0, 1}
PyTextVals == { << >>, TextA, TextLone, << 97 >> }

\* The entries of the generated pinyin tables.
PyEntries == SeqsUpTo([index : PyIndexVals, text : PyTextVals], MaxPy)

\* Two regions that do not start with the magic.
PyNoMagic ==
  { << >>, << 157, 1, 0, 1 >> \o EncPinyin([index |-> 0, text |-> TextA], NoLie) }

\* The entries of the well-formed tables whose k-th text is the k-th letter.
PyCoreEntries ==
  { [k \in 1..Len(ix) |-> [index |-> ix[k], text |-> << 96 + k, 0 >>]] :
      ix \in SeqsUpTo(PyIndexVals, MaxPy) }

\* One word record: word_len, text, ext_len, ext.
EncWord(w, m) ==
  Enc16(Len(w.text) + Lie(m, "word_len")) \o w.text
    \o Enc16(Len(w.ext) + Lie(m, "ext_len")) \o w.ext

\* One word group: same, py_table_len, the raw indices, the words.
EncGroup(g, m) ==
  Enc16(Len(g.words) + Lie(m, "same"))
    \o Enc16(2 * Len(g.idx) + Lie(m, "py_table_len")) \o pack(g.idx)
    \o Concat([k \in 1..Len(g.words) |-> EncWord(g.words[k], At(m, k, Len(g.words)))])

\* The word-table region of the groups gs.
WordRegion(gs, m) ==
  Cut(Concat([k \in 1..Len(gs) |-> EncGroup(gs[k], At(m, k, Len(gs)))]), CutOf(m))

ExtVals == { << >>, << 5 >>, << 5, 0 >>, << 5, 1, 9 >> }
WordVals == [text : {TextX}, ext : ExtVals]
\* Raw indices run one past the largest generated pinyin table.
RawVals == 0..MaxPy

GroupX == [idx |-> << 0 >>, words |-> << [text |-> TextX, ext |-> << >>] >>]

\* The groups that tables of several groups are made of.
GroupCatalogue ==
  { GroupX,
    [idx |-> << >>, words |-> << >>],
    [idx |-> << 1, 0 >>,
     words |-> << [text |-> TextY, ext |-> << 5, 0 >>],
                  [text |-> TextX, ext |-> << >>] >>] }

\* The generated word tables: several catalogue groups, or one group with
\* any index table, or one group with any words.
Tables ==
  SeqsUpTo(GroupCatalogue, MaxGroups)
  \cup { << [idx |-> ix, words |-> GroupX.words] >> : ix \in SeqsUpTo(RawVals, MaxPy) }
  \cup { << [idx |-> GroupX.idx, words |-> ws] >> : ws \in SeqsUpTo(WordVals, MaxWords) }

WordMalforms == Malforms({"same", "py_table_len", "word_len", "ext_len"})

\* Three well-formed word tables: none, one and two groups.
FewTables ==
  { << >>, << GroupX >>,
    << [idx |-> << 1, 0 >>,
        words |-> << [text |-> TextY, ext |-> << 5, 0 >>],
                     [text |-> TextX, ext |-> << >>] >>],
       GroupX >> }

\* The four string ranges of the header: name, type, description, example.
StrsGood == << TextA, TextX, << >>, TextY >>
StrsBad == << TextA, TextX, << >>, TextLone >>
\* A buffer that ends inside the name.
StrsShort == << << 97 >>, << >>, << >>, << >> >>
NoStrs == << << >>, << >>, << >>, << >> >>

SigBad == << 64, 21, 0, 0, 68, 67, 83, 1, 1, 0, 0, 1 >>

Buffer(sig, strs, py, words) ==
  [sig |-> sig, strs |-> strs, py |-> py, words |-> words]

\* The input buffers: data[:12], the string ranges, data[PY_OFFSET:
\* WORDGROUP_OFFSET] and data[WORDGROUP_OFFSET:].  Any pinyin region comes
\* with a few word tables, any word region with the well-formed pinyin
\* tables, and the headers that fail with a few of both.
IsBuffer(b) ==
  \/ \E es \in PyEntries, m \in Malforms({"length"}), gs \in FewTables :
       b = Buffer(Signature, StrsGood, PyRegion(es, m), WordRegion(gs, NoLie))
  \/ \E p \in PyNoMagic, gs \in FewTables :
       b = Buffer(Signature, StrsGood, p, WordRegion(gs, NoLie))
  \/ \E es \in PyCoreEntries, gs \in Tables, m \in WordMalforms :
       b = Buffer(Signature, StrsGood, PyRegion(es, NoLie), WordRegion(gs, m))
  \/ \E sg \in {Signature, SigBad}, st \in {StrsGood, StrsBad},
        es \in PyCoreEntries, gs \in FewTables :
       b = Buffer(sg, st, PyRegion(es, NoLie), WordRegion(gs, NoLie))
  \/ b \in { Buffer(Signature, StrsShort, << >>, << >>),
             Buffer(<< 64, 21 >>, NoStrs, << >>, << >>),
             Buffer(<< >>, NoStrs, << >>, << >>) }

\* ---------------------------------------------------------------- state

VARIABLES
  buf,            \* the bytes read from the .scel file, by region
  pc,             \* where process_scel_file stands
  data,           \* the slice the running loop has left to parse
  header,         \* the four strings of ScelHeader
  pinyin_list,    \* PinyinTable.pinyin_list
  word_table,     \* the WordGroups parsed so far
  raw_indices,    \* per group that came to unpack its index table, the result
  overrun,        \* the length fields that declared more than was left
  calls,          \* the functions called so far
  err,            \* the exception that ended the run, or "none"
  word_info_list, \* what get_word_info_list returned
  text,           \* what to_ibus returned
  output_file     \* the .txt file beside the input

vars == << buf, pc, data, header, pinyin_list, word_table, raw_indices,
           overrun, calls, err, word_info_list, text, output_file >>

Init ==
  /\ IsBuffer(buf)
  /\ pc = "parse_header"
  /\ data = << >>
  /\ header = << >>
  /\ pinyin_list = << >>
  /\ word_table = << >>
  /\ raw_indices = << >>
  /\ overrun = {}
  /\ calls = {}
  /\ err = "none"
  /\ word_info_list = << >>
  /\ text = << >>
  /\ output_file = [state |-> "untouched", content |-> << >>]

\* An exception leaves process_scel_file: nothing catches it.
Raise(e) == pc' = "failed" /\ err' = e

\* from_binary calls parse_header.
ParseHeader ==
  /\ pc = "parse_header"
  /\ LET r == parse_header(buf.sig, buf.strs)
     IN  /\ calls' = calls \cup {"parse_header"}
                       \cup (IF r.decoded THEN {"decode_header_string"} ELSE {})
         /\ IF r.ok
            THEN pc' = "parse_py_table" /\ header' = r.fields /\ err' = err
            ELSE Raise(r.err) /\ header' = header
  /\ UNCHANGED << buf, data, pinyin_list, word_table, raw_indices, overrun,
                  word_info_list, text, output_file >>

\* parse_py_table up to its loop: the magic, then data = data[4:].
ParsePyTable ==
  /\ pc = "parse_py_table"
  /\ calls' = calls \cup {"parse_py_table"}
  /\ IF Slice(buf.py, 0, 4) # PyMagic
     THEN Raise("magic") /\ data' = data
     ELSE pc' = "py_loop" /\ data' = Drop(buf.py, 4) /\ err' = err
  /\ UNCHANGED << buf, header, pinyin_list, word_table, raw_indices, overrun,
                  word_info_list, text, output_file >>

\* One pass of `while data:` in parse_py_table.
ParsePinyin ==
  /\ pc = "py_loop"
  /\ data # << >>
  /\ LET r == parse_pinyin(data)
     IN  /\ overrun' = overrun \cup (IF r.overrun THEN {"length"} ELSE {})
         /\ IF r.ok
            THEN /\ pinyin_list' = Append(pinyin_list, r.pinyin)
                 /\ data' = r.rest
                 /\ UNCHANGED << pc, err >>
            ELSE Raise(r.err) /\ UNCHANGED << pinyin_list, data >>
  /\ UNCHANGED << buf, header, word_table, raw_indices, calls, word_info_list,
                  text, output_file >>

\* parse_py_table returns and from_binary calls parse_word_table.
PyTableDone ==
  /\ pc = "py_loop"
  /\ data = << >>
  /\ pc' = "word_loop"
  /\ data' = buf.words
  /\ calls' = calls \cup {"parse_word_table"}
  /\ UNCHANGED << buf, header, pinyin_list, word_table, raw_indices, overrun,
                  err, word_info_list, text, output_file >>

\* One pass of `while data:` in parse_word_table.
ParseWordGroup ==
  /\ pc = "word_loop"
  /\ data # << >>
  /\ LET r == parse_word_group(data, pinyin_list)
     IN  /\ overrun' = overrun \cup r.overrun
         /\ raw_indices' = raw_indices \o r.raw
         /\ IF r.ok
            THEN /\ word_table' = Append(word_table, r.group)
                 /\ data' = r.rest
                 /\ UNCHANGED << pc, err >>
            ELSE Raise(r.err) /\ UNCHANGED << word_table, data >>
  /\ UNCHANGED << buf, header, pinyin_list, calls, word_info_list, text,
                  output_file >>

\* parse_word_table returns, and from_binary returns the Scel.
WordTableDone ==
  /\ pc = "word_loop"
  /\ data = << >>
  /\ pc' = "open_output"
  /\ UNCHANGED << buf, data, header, pinyin_list, word_table, raw_indices,
                  overrun, calls, err, word_info_list, text, output_file >>

\* open(output_file, "w"): the file is created, or truncated if it exists.
OpenOutput ==
  /\ pc = "open_output"
  /\ output_file' = [state |-> "truncated", content |-> << >>]
  /\ pc' = "to_ibus"
  /\ UNCHANGED << buf, data, header, pinyin_list, word_table, raw_indices,
                  overrun, calls, err, word_info_list, text >>

\* scel.to_ibus(), the argument of f.write; an exception closes the file.
ToIbus ==
  /\ pc = "to_ibus"
  /\ calls' = calls \cup {"to_ibus"}
  /\ LET r == to_ibus(word_table, pinyin_list)
     IN  IF r.ok
         THEN /\ pc' = "write"
              /\ word_info_list' = r.infos
              /\ text' = r.text
              /\ err' = err
         ELSE Raise(r.err) /\ UNCHANGED << word_info_list, text >>
  /\ UNCHANGED << buf, data, header, pinyin_list, word_table, raw_indices,
                  overrun, output_file >>

\* f.write(text) and the end of the with block.
Write ==
  /\ pc = "write"
  /\ output_file' = [state |-> "written", content |-> encode_utf8(text)]
  /\ pc' = "done"
  /\ UNCHANGED << buf, data, header, pinyin_list, word_table, raw_indices,
                  overrun, calls, err, word_info_list, text >>

Next ==
  \/ ParseHeader
  \/ ParsePyTable
  \/ ParsePinyin
  \/ PyTableDone
  \/ ParseWordGroup
  \/ WordTableDone
  \/ OpenOutput
  \/ ToIbus
  \/ Write

Spec == Init /\ [][Next]_vars

\* ------------------------------------------------------------ the claims

\* Scel.from_binary has returned a Scel.
Parsed ==
  \/ pc \in {"open_output", "to_ibus", "write", "done"}
  \/ (pc = "failed" /\ "to_ibus" \in calls)

\* The run failed inside Scel.from_binary.
DecodeFailed == pc = "failed" /\ "to_ibus" \notin calls

\* C1: a length field of the word table (py_table_len, word_len, ext_len)
\* that declares more bytes than the slice has left makes the decode fail,
\* and nothing is written.
C1_WordOverrunFails ==
  overrun \cap {"py_table_len", "word_len", "ext_len"} # {}
    => DecodeFailed /\ output_file.state = "untouched"

\* C2: a pinyin entry whose declared length is larger than the bytes left
\* after its 4-byte prefix makes parse_py_table fail.
C2_PinyinOverrunFails ==
  "length" \in overrun => DecodeFailed /\ "parse_word_table" \notin calls

\* Some index table unpacked to a value that is no position of pinyin_list.
RawOutOfRange ==
  \E g \in 1..Len(raw_indices) : \E k \in 1..Len(raw_indices[g]) :
    raw_indices[g][k] >= Len(pinyin_list)

\* C3: a raw index that is not less than the number of pinyin entries makes
\* the decode fail with the index error: from_binary returns nothing.
C3_RawIndexChecked ==
  RawOutOfRange => DecodeFailed /\ err = "index" /\ ~Parsed

\* C3's case: a group after a good one holds a raw index past the table.
C3_Witness ==
  /\ RawOutOfRange
  /\ DecodeFailed
  /\ Len(word_table) >= 1
  /\ Len(pinyin_list) >= 1

\* C4: whatever stage fails, the output file was neither created nor
\* truncated nor written (stated for the inputs without an overrun).
C4_NoOutputOnFailure ==
  (pc = "failed" /\ overrun = {}) => output_file.state = "untouched"

\* The words of a word table, in file order.
RECURSIVE AllWords(_)
AllWords(wt) ==
  IF wt = << >> THEN << >> ELSE Head(wt).words \o AllWords(Tail(wt))

\* C5: for every parsed word get_word_info_list emits a WordInfo, whatever
\* the length of the extension: its count is 0 for an empty extension and
\* else the first two bytes, little-endian (stated for the inputs without
\* an overrun).
C5_CountOfEveryExtension ==
  ("to_ibus" \in calls /\ overrun = {}) =>
    /\ ~(pc = "failed" /\ err = "struct")
    /\ pc # "failed" =>
         LET ws == AllWords(word_table)
         IN  /\ Len(word_info_list) = Len(ws)
             /\ \A k \in 1..Len(ws) :
                  word_info_list[k].count =
                    IF ws[k].ext = << >> THEN 0
                    ELSE ws[k].ext[1] + 256 * ws[k].ext[2]

\* The lines of a text that ends with a newline: one per newline.
Lines(t) == Cardinality({k \in 1..Len(t) : t[k] = 10})

RECURSIVE SumSame(_)
SumSame(wt) == IF wt = << >> THEN 0 ELSE Head(wt).same + SumSame(Tail(wt))

\* C6: the text to_ibus returns has as many lines as the homophone counts
\* of the groups add up to, also when that is 0.
C6_LinesAreSumOfSame ==
  pc \in {"write", "done"} => Lines(text) = SumSame(word_table)

\* C7: a buffer whose first 12 bytes are not the signature fails with the
\* signature error in parse_header: no header string is decoded and neither
\* table parser is called.
C7_SignatureFirst ==
  buf.sig # Signature =>
    /\ pc \in {"parse_header", "failed"}
    /\ pc = "failed" => err = "signature"
    /\ calls \subseteq {"parse_header"}
    /\ header = << >> /\ pinyin_list = << >> /\ word_table = << >>

\* C7's case: 12 wrong bytes before a region that would parse and a header
\* string that would not decode.
C7_Witness ==
  /\ pc = "failed"
  /\ Len(buf.sig) = 12 /\ buf.sig # Signature
  /\ buf.strs = StrsBad
  /\ Len(buf.py) > 4 /\ buf.words # << >>

\* C8: once from_binary has returned, every value stored in a group's
\* py_table is a position of pinyin_list (stated for the inputs without an
\* overrun).
C8_StoredIndicesInRange ==
  (Parsed /\ overrun = {}) =>
    \A g \in 1..Len(word_table) : \A k \in 1..Len(word_table[g].py_table) :
      word_table[g].py_table[k] < Len(pinyin_list)

\* The pinyin of a group in one step: the texts at its raw indices, joined.
single_step_pinyin(raw, pl) ==
  join(39, [k \in 1..Len(raw) |-> pl[raw[k] + 1].pinyin])

\* C9: for every group of a parsed input, the lookup of get_word_pinyin on
\* the stored indices gives the string the raw indices give in one step
\* (a parsed input without an overrun counts as valid).
C9_TwoPassIsOnePass ==
  (Parsed /\ overrun = {}) =>
    \A g \in 1..Len(word_table) :
      get_word_pinyin(pack(word_table[g].py_table), pinyin_list)
        = [ok |-> TRUE, s |-> single_step_pinyin(raw_indices[g], pinyin_list)]

\* A pass of a record loop that did not fail leaves a proper suffix of the
\* slice, at least 4 bytes shorter.
LoopAdvances ==
  (pc \in {"py_loop", "word_loop"} /\ pc' = pc) =>
    (Len(data') + 4 <= Len(data) /\ data' = Drop(data, Len(data) - Len(data')))

\* A record loop is left without an error only when the slice is empty.
LoopEndsEmpty ==
  ((pc = "py_loop" /\ pc' = "word_loop") \/ (pc = "word_loop" /\ pc' = "open_output"))
    => data = << >>

\* C10: a pass of either record loop fails or strictly shortens the slice
\* (the cursor moves on by the 4-byte prefix at least, never back), a loop
\* returns only on an empty slice: a loop over a slice of n bytes ends
\* after at most n / 4 passes.
C10_LoopsTerminate == [][LoopAdvances]_vars /\ [][LoopEndsEmpty]_vars

\* C10's case: both loops ran more than once and returned.
C10_Witness ==
  /\ pc = "open_output"
  /\ Len(pinyin_list) >= 2
  /\ Len(word_table) >= 2

====
